---- MODULE Spec2Model ----
(***************************************************************************)
(* BatteryReport (src/battery_report/battery_report.py): the analyzer that *)
(* turns one EV diagnostic snapshot into a health report.                  *)
(*                                                                         *)
(* Units.  Python floats are IEEE-754 doubles.  A float that the snapshot  *)
(* carries is written here as the integer numerator of its decimal         *)
(* notation and stands for the double nearest to that decimal:             *)
(*   voltage      millivolts            4050  is the double of 4.05        *)
(*   temperature  hundredths of a deg C 4500  is the double of 45.0        *)
(*   capacity     hundredths of a kWh   5400  is the double of 54.0        *)
(*   soh          hundredths of a %     8000  is the double of 80.0        *)
(* Arithmetic on them is done as the double arithmetic does it (the        *)
(* section "IEEE-754 doubles" below).                                      *)
(***************************************************************************)
EXTENDS Integers, Sequences, FiniteSets, TLC

(***************************************************************************)
(* Bounds of the model.                                                    *)
(***************************************************************************)
\* longest cells list of a snapshot
MaxCells == 2

\* most calls made on the two analyzers of SpecInstances together
MaxCalls == 3

(***************************************************************************)
(* Class constants, battery_report.py:26-28, in the units above.           *)
(***************************************************************************)
VOLTAGE_IMBALANCE_THRESHOLD == 50

OVERHEATING_THRESHOLD == 4500

LOW_HEALTH_THRESHOLD == 8000

(***************************************************************************)
(* IEEE-754 doubles.                                                       *)
(*                                                                         *)
(* A double is M / 2^k with M a 53-bit integer.  M does not fit TLC's      *)
(* integers, so a double x is kept as the exact rational it approximates   *)
(* and its rounding error:                                                 *)
(*     value(x) = x.sign * ( x.num / x.den  -  x.err / (x.den * 2^x.ek) )  *)
(*     value(x) = x.sign * M / 2^x.k                                       *)
(* Every residue the roundings need is computed by modular arithmetic on   *)
(* small integers.  All roundings are round-to-nearest, ties-to-even.      *)
(***************************************************************************)
RECURSIVE Exp2(_, _)
\* floor(log2(num/den)) for num, den > 0
Exp2(num, den) ==
    IF num < den THEN Exp2(2 * num, den) - 1
    ELSE IF num >= 2 * den THEN Exp2(num, 2 * den) + 1
    ELSE 0

RECURSIVE Pow2Mod(_, _)
\* 2^k mod m, eight bits at a time (m < 2^23, so that no product leaves 32
\* bits)
Pow2Mod(k, m) == IF k < 8 THEN (2 ^ k) % m ELSE (256 * Pow2Mod(k - 8, m)) % m

RECURSIVE MulMod(_, _, _)
\* a * b mod m, eight bits of b at a time (0 <= a < m < 2^23, b >= 0)
MulMod(a, b, m) ==
    IF b = 0 THEN 0
    ELSE (((256 * MulMod(a, b \div 256, m)) % m) + ((a * (b % 256)) % m)) % m

\* what round-to-nearest-even takes off a quotient whose remainder is res
\* (0 <= res < modulus) and whose floor has parity par: the quotient is
\* rounded down (res) or up (res - modulus)
RoundNearestEven(res, modulus, par) ==
    IF 2 * res < modulus THEN res
    ELSE IF 2 * res > modulus THEN res - modulus
    ELSE IF par = 0 THEN res
    ELSE res - modulus

FloatZero == [sign |-> 1, num |-> 0, den |-> 1, k |-> 0, ek |-> 0, err |-> 0]

\* the double a decimal n/den is read as (a literal of the source, a number
\* of the parsed snapshot)
FloatLit(n, den) ==
    IF n = 0 THEN FloatZero
    ELSE LET a == IF n < 0 THEN 0 - n ELSE n
             k == 52 - Exp2(a, den)
             res == MulMod(a % den, Pow2Mod(k, den), den)
         IN  [sign |-> IF n < 0 THEN 0 - 1 ELSE 1, num |-> a, den |-> den,
              k |-> k, ek |-> k,
              err |-> RoundNearestEven(res, den, 0)]

\* the mantissa M of x modulo m
MantMod(x, m) ==
    LET d == x.den * 2 ^ (x.ek - x.k)
        dm == d * m
    IN  ((MulMod(x.num % dm, Pow2Mod(x.ek, dm), dm) - x.err) % dm) \div d

\* x / n for a double x and a positive integer n that is itself a double
FloatDivInt(x, n) ==
    IF x.num = 0 THEN FloatZero
    ELSE LET k2 == 52 - Exp2(x.num, x.den * n)
             s == k2 - x.k
             y == MulMod(MantMod(x, 2 * n), Pow2Mod(s, 2 * n), 2 * n)
             rq == RoundNearestEven(y % n, n, y \div n)
         IN  [sign |-> x.sign, num |-> x.num, den |-> x.den * n,
              k |-> k2, ek |-> k2,
              err |-> x.err * 2 ^ (k2 - x.ek) + x.den * rq]

\* x * c for a double x and a positive integer c that is itself a double
FloatMulInt(x, c) ==
    IF x.num = 0 THEN FloatZero
    ELSE LET k3 == 52 - Exp2(c * x.num, x.den)
             t == x.k - k3
             z == (MantMod(x, 2 ^ (t + 1)) * c) % (2 ^ (t + 1))
             rp == RoundNearestEven(z % (2 ^ t), 2 ^ t, z \div (2 ^ t))
         IN  [sign |-> x.sign, num |-> c * x.num, den |-> x.den,
              k |-> k3, ek |-> x.ek,
              err |-> c * x.err + rp * x.den]

\* x - y for two positive doubles of one denominator within a factor two of
\* each other, x >= y: the difference of two such doubles is a double, so
\* the subtraction does not round
FloatSub(x, y) ==
    LET ek == IF x.ek > y.ek THEN x.ek ELSE y.ek
    IN  [sign |-> 1, num |-> x.num - y.num, den |-> x.den, k |-> ek, ek |-> ek,
         err |-> x.err * 2 ^ (ek - x.ek) - y.err * 2 ^ (ek - y.ek)]

\* x > y for two non-negative doubles of one denominator: the rationals
\* decide, and the rounding errors decide between equal rationals
FloatGT(x, y) ==
    LET ek == IF x.ek > y.ek THEN x.ek ELSE y.ek
    IN  IF x.num # y.num THEN x.num > y.num
        ELSE x.err * 2 ^ (ek - x.ek) < y.err * 2 ^ (ek - y.ek)

\* a round(x, 2) that cuts the digits after the second instead of rounding
PyRound2_truncating(x) == x.sign * ((100 * x.num) \div x.den)

\* round(x, 2), battery_report.py:67: the hundredth nearest to the double x,
\* in hundredths.  Python rounds the exact value of the double, ties to
\* even; the double is at a tie only when its rounding error is zero.
PyRound2(x) ==
    LET fl == (100 * x.num) \div x.den
        rem2 == 200 * x.num - 2 * fl * x.den
        mag == IF rem2 < x.den THEN fl
               ELSE IF rem2 > x.den THEN fl + 1
               ELSE IF x.err > 0 THEN fl
               ELSE IF x.err < 0 THEN fl + 1
               ELSE IF fl % 2 = 0 THEN fl
               ELSE fl + 1
    IN  x.sign * mag

(***************************************************************************)
(* Python built-ins the analyzer uses.  A call ends in a result            *)
(*   [exc, val, divisions, calls, writes]                                  *)
(* exc is "none" or the exception it raised, val the value returned,       *)
(* divisions the number of true divisions it executed, calls the methods   *)
(* of the analyzer it called, in order, with their soh argument, writes    *)
(* the assignments [attr, val] it made to attributes of self, in order.    *)
(* A return or a raise assigns nothing.                                    *)
(***************************************************************************)
Return(v) == [exc |-> "none", val |-> v, divisions |-> 0, calls |-> <<>>, writes |-> <<>>]

Raise(e) == [exc |-> e, val |-> "none", divisions |-> 0, calls |-> <<>>, writes |-> <<>>]

\* the result r of calling method fn with the arguments args, as its caller
\* sees it
Call(fn, args, r) == [r EXCEPT !.calls = <<[fn |-> fn, args |-> args]>> \o r.calls]

\* the result r of a later step, after the steps that ended in p
After(p, r) ==
    [r EXCEPT !.divisions = p.divisions + r.divisions, !.calls = p.calls \o r.calls,
              !.writes = p.writes \o r.writes]

RECURSIVE SetAttrs(_, _)
\* the object s after the assignments "s.attr = val" of writes, in order
SetAttrs(s, writes) ==
    IF writes = <<>> THEN s
    ELSE SetAttrs([s EXCEPT ![Head(writes).attr] = Head(writes).val], Tail(writes))

\* dict.get(key, default)
DictGet(d, key, default) == IF key \in DOMAIN d THEN d[key] ELSE default

RECURSIVE FoldMax(_, _, _)
FoldMax(s, i, best) ==
    IF i > Len(s) THEN best
    ELSE FoldMax(s, i + 1, IF s[i] > best THEN s[i] ELSE best)

RECURSIVE FoldMin(_, _, _)
FoldMin(s, i, best) ==
    IF i > Len(s) THEN best
    ELSE FoldMin(s, i + 1, IF s[i] < best THEN s[i] ELSE best)

\* max(list): ValueError on an empty list.  The doubles of two decimals are
\* ordered as the decimals are, so the largest double is the double of the
\* largest decimal.
PyMax(s) == IF Len(s) = 0 THEN Raise("ValueError") ELSE Return(FoldMax(s, 2, s[1]))

\* min(list): ValueError on an empty list
PyMin(s) == IF Len(s) = 0 THEN Raise("ValueError") ELSE Return(FoldMin(s, 2, s[1]))

\* a / b on capacities (hundredths of a kWh): ZeroDivisionError when b == 0.
\* The divisor is a whole number of kWh, which is a double exactly.
PyTrueDiv(a, b) ==
    IF b = 0 THEN Raise("ZeroDivisionError")
    ELSE [Return(FloatDivInt(FloatLit(a, 100), b \div 100)) EXCEPT !.divisions = 1]

(***************************************************************************)
(* The diagnostic snapshots: Python dicts, functions from the keys that    *)
(* are present.  vehicle_id and timestamp are never read by the analyzer;  *)
(* a cell's id is not read either and is left out.                         *)
(***************************************************************************)
CellReadings ==
    { [voltage |-> 4000, temperature |-> 3000],
      [voltage |-> 4050, temperature |-> 3000],
      [voltage |-> 3800, temperature |-> 4500],
      [voltage |-> 3850, temperature |-> 4800],
      [voltage |-> 4051, temperature |-> 4501] }

CellLists == UNION { [1..n -> CellReadings] : n \in 0..MaxCells }

CycleCounts == {300}

\* whole numbers of kWh
NominalCapacities == {0, 6000, 20000, 25000}

CurrentCapacities == {0 - 1, 0, 4799, 4800, 5400, 15985, 15999, 19999, 25001}

\* soh values a caller passes to detect_low_health and detect_anomalies,
\* besides the one calculate_state_of_health returns
SohArgs == {7999, 8000}

OptionalKeys == {"cells", "cycle_count", "nominal_capacity_kwh", "current_capacity_kwh"}

Snapshot(present, cs, cy, nm, cu) ==
    [key \in present \cup {"vehicle_id", "timestamp"} |->
        CASE key = "cells" -> cs
          [] key = "cycle_count" -> cy
          [] key = "nominal_capacity_kwh" -> nm
          [] key = "current_capacity_kwh" -> cu
          [] key = "vehicle_id" -> "EV-10000"
          [] key = "timestamp" -> "2024-01-01T00:00:00Z"]

\* the values a key can take: all of them when present, one when absent
ValuesOf(present, key, values, absent) == IF key \in present THEN values ELSE {absent}

Snapshots ==
    UNION { { Snapshot(present, cs, cy, nm, cu) :
                cs \in ValuesOf(present, "cells", CellLists, <<>>),
                cy \in ValuesOf(present, "cycle_count", CycleCounts, 0),
                nm \in ValuesOf(present, "nominal_capacity_kwh", NominalCapacities, 0),
                cu \in ValuesOf(present, "current_capacity_kwh", CurrentCapacities, 0) } :
            present \in SUBSET OptionalKeys }

\* the snapshots the two analyzers of SpecInstances are built from: with
\* and without cells, a zero and a positive nominal capacity, a current
\* capacity below and at the low-health threshold
InstanceSnapshots ==
    { Snapshot(present, <<[voltage |-> 4051, temperature |-> 4501],
                          [voltage |-> 3850, temperature |-> 4800]>>, 300, nm, cu) :
        present \in {OptionalKeys, OptionalKeys \ {"cells"}},
        nm \in {0, 6000},
        cu \in {4799, 4800} }

(***************************************************************************)
(* class BatteryReport                                                     *)
(***************************************************************************)
\* a constructor whose default nominal capacity is 1 kWh instead of 0
init_with_unit_nominal_default(diagnostic_data) ==
    [data |-> diagnostic_data,
     cells |-> DictGet(diagnostic_data, "cells", <<>>),
     cycle_count |-> DictGet(diagnostic_data, "cycle_count", 0),
     nominal_capacity |-> DictGet(diagnostic_data, "nominal_capacity_kwh", 100),
     current_capacity |-> DictGet(diagnostic_data, "current_capacity_kwh", 0)]

\* the analyzer BatteryReport(diagnostic_data) constructs
__init__(diagnostic_data) ==
    [data |-> diagnostic_data,
     cells |-> DictGet(diagnostic_data, "cells", <<>>),
     cycle_count |-> DictGet(diagnostic_data, "cycle_count", 0),
     nominal_capacity |-> DictGet(diagnostic_data, "nominal_capacity_kwh", 0),
     current_capacity |-> DictGet(diagnostic_data, "current_capacity_kwh", 0)]

\* calculate_state_of_health that takes a battery without a nominal capacity
\* for a healthy one: 100.0 instead of 0.0
calculate_state_of_health_healthy_on_zero_nominal(self) ==
    IF self.nominal_capacity = 0 THEN Return(10000)
    ELSE LET q == PyTrueDiv(self.current_capacity, self.nominal_capacity)
         IN  IF q.exc # "none" THEN q
             ELSE After(q, Return(PyRound2(FloatMulInt(q.val, 100))))

\* calculate_state_of_health without its zero-nominal guard
calculate_state_of_health_unguarded(self) ==
    LET q == PyTrueDiv(self.current_capacity, self.nominal_capacity)
    IN  IF q.exc # "none" THEN q
        ELSE After(q, Return(PyRound2(FloatMulInt(q.val, 100))))

calculate_state_of_health(self) ==
    IF self.nominal_capacity = 0 THEN Return(0)
    ELSE LET q == PyTrueDiv(self.current_capacity, self.nominal_capacity)
         IN  IF q.exc # "none" THEN q
             ELSE After(q, Return(PyRound2(FloatMulInt(q.val, 100))))

\* detect_voltage_imbalance that takes the range as last cell minus first cell,
\* as if the cells came sorted by voltage
detect_voltage_imbalance_last_minus_first(self) ==
    IF Len(self.cells) = 0 THEN Return(FALSE)
    ELSE LET voltages == [i \in 1..Len(self.cells) |-> self.cells[i].voltage]
             voltage_range == FloatSub(FloatLit(voltages[Len(voltages)], 1000),
                                       FloatLit(voltages[1], 1000))
         IN  Return(FloatGT(voltage_range, FloatLit(VOLTAGE_IMBALANCE_THRESHOLD, 1000)))

\* detect_voltage_imbalance without its empty-cells guard
detect_voltage_imbalance_unguarded(self) ==
    LET voltages == [i \in 1..Len(self.cells) |-> self.cells[i].voltage]
        hi == PyMax(voltages)
        lo == PyMin(voltages)
    IN  IF hi.exc # "none" THEN hi
        ELSE IF lo.exc # "none" THEN lo
        ELSE Return(FloatGT(FloatSub(FloatLit(hi.val, 1000), FloatLit(lo.val, 1000)),
                            FloatLit(VOLTAGE_IMBALANCE_THRESHOLD, 1000)))

detect_voltage_imbalance(self) ==
    IF Len(self.cells) = 0 THEN Return(FALSE)
    ELSE LET voltages == [i \in 1..Len(self.cells) |-> self.cells[i].voltage]
             hi == PyMax(voltages)
             lo == PyMin(voltages)
         IN  IF hi.exc # "none" THEN hi
             ELSE IF lo.exc # "none" THEN lo
             ELSE LET voltage_range == FloatSub(FloatLit(hi.val, 1000), FloatLit(lo.val, 1000))
                  IN  Return(FloatGT(voltage_range, FloatLit(VOLTAGE_IMBALANCE_THRESHOLD, 1000)))

RECURSIVE OverheatingLoop(_, _)
\* for cell in self.cells, from the i-th on: return True at the first cell
\* above the threshold.  A temperature is above 45.0, a double exactly, when
\* and only when its decimal is.
OverheatingLoop(cells, i) ==
    IF i > Len(cells) THEN FALSE
    ELSE IF cells[i].temperature > OVERHEATING_THRESHOLD THEN TRUE
    ELSE OverheatingLoop(cells, i + 1)

\* detect_overheating that takes the cells off the list as it scans them
\* ("while self.cells: cell = self.cells.pop(0)") and leaves the rest
detect_overheating_consuming_cells(self) ==
    IF Len(self.cells) = 0 THEN Return(FALSE)
    ELSE LET hot == { i \in 1..Len(self.cells) :
                        self.cells[i].temperature > OVERHEATING_THRESHOLD }
             first == IF hot = {} THEN Len(self.cells)
                      ELSE CHOOSE i \in hot : \A j \in hot : i <= j
             rest == SubSeq(self.cells, first + 1, Len(self.cells))
         IN  [Return(hot # {}) EXCEPT !.writes = <<[attr |-> "cells", val |-> rest]>>]

\* detect_overheating whose loop returns after its first cell
detect_overheating_first_cell_only(self) ==
    IF Len(self.cells) = 0 THEN Return(FALSE)
    ELSE Return(self.cells[1].temperature > OVERHEATING_THRESHOLD)

detect_overheating(self) ==
    IF Len(self.cells) = 0 THEN Return(FALSE)
    ELSE Return(OverheatingLoop(self.cells, 1))

\* detect_low_health that compares the capacity ratio itself, before any
\* rounding, with the threshold: current / nominal < 0.8
detect_low_health_on_raw_ratio(self, soh) ==
    IF self.nominal_capacity = 0 THEN Return(soh < LOW_HEALTH_THRESHOLD)
    ELSE Return(100 * self.current_capacity < (LOW_HEALTH_THRESHOLD \div 100) * self.nominal_capacity)

\* detect_low_health that recomputes the SoH instead of using its argument
detect_low_health_recomputing(self, soh) ==
    Return(calculate_state_of_health(self).val < LOW_HEALTH_THRESHOLD)

\* soh is below 80.0, a double exactly, when and only when its decimal is
detect_low_health(self, soh) == Return(soh < LOW_HEALTH_THRESHOLD)

\* one "if detector: anomalies.append(label)" of detect_anomalies: the list
\* so far is in p.val
AppendIf(p, r, label) ==
    IF r.exc # "none" THEN After(p, r)
    ELSE After(p, [r EXCEPT !.val = IF r.val THEN Append(p.val, label) ELSE p.val])

\* detect_anomalies with the overheating check moved before the voltage check
detect_anomalies_overheating_first(self, soh) ==
    LET a0 == Return(<<>>)
        a1 == AppendIf(a0, Call("detect_overheating", <<>>, detect_overheating(self)),
                       "Overheating detected")
        a2 == IF a1.exc # "none" THEN a1
              ELSE AppendIf(a1, Call("detect_voltage_imbalance", <<>>, detect_voltage_imbalance(self)),
                            "Voltage imbalance detected")
        a3 == IF a2.exc # "none" THEN a2
              ELSE AppendIf(a2, Call("detect_low_health", <<soh>>, detect_low_health(self, soh)),
                            "Low State of Health")
    IN  a3

detect_anomalies(self, soh) ==
    LET a0 == Return(<<>>)
        a1 == AppendIf(a0, Call("detect_voltage_imbalance", <<>>, detect_voltage_imbalance(self)),
                       "Voltage imbalance detected")
        a2 == IF a1.exc # "none" THEN a1
              ELSE AppendIf(a1, Call("detect_overheating", <<>>, detect_overheating(self)),
                            "Overheating detected")
        a3 == IF a2.exc # "none" THEN a2
              ELSE AppendIf(a2, Call("detect_low_health", <<soh>>, detect_low_health(self, soh)),
                            "Low State of Health")
    IN  a3

\* generate_report that computes the SoH a second time for the anomaly step
generate_report_recomputing(self) ==
    LET s == Call("calculate_state_of_health", <<>>, calculate_state_of_health(self))
    IN  IF s.exc # "none" THEN s
        ELSE LET s2 == After(s, Call("calculate_state_of_health", <<>>,
                                     calculate_state_of_health(self)))
                 a == After(s2, Call("detect_anomalies", <<s2.val>>,
                                     detect_anomalies(self, s2.val)))
             IN  IF a.exc # "none" THEN a
                 ELSE [a EXCEPT !.val = [battery_soh |-> s.val,
                                         cycle_count |-> self.cycle_count,
                                         anomalies |-> a.val]]

\* generate_report that reports the number of cells as the cycle count
generate_report_counting_cells(self) ==
    LET s == Call("calculate_state_of_health", <<>>, calculate_state_of_health(self))
    IN  IF s.exc # "none" THEN s
        ELSE LET soh == s.val
                 a == After(s, Call("detect_anomalies", <<soh>>, detect_anomalies(self, soh)))
             IN  IF a.exc # "none" THEN a
                 ELSE [a EXCEPT !.val = [battery_soh |-> soh,
                                         cycle_count |-> Len(self.cells),
                                         anomalies |-> a.val]]

generate_report(self) ==
    LET s == Call("calculate_state_of_health", <<>>, calculate_state_of_health(self))
    IN  IF s.exc # "none" THEN s
        ELSE LET soh == s.val
                 a == After(s, Call("detect_anomalies", <<soh>>, detect_anomalies(self, soh)))
             IN  IF a.exc # "none" THEN a
                 ELSE [a EXCEPT !.val = [battery_soh |-> soh,
                                         cycle_count |-> self.cycle_count,
                                         anomalies |-> a.val]]

(***************************************************************************)
(* The state: one analyzer, built from a snapshot by the constructor, and  *)
(* the last call made on it.  SpecInstances has a second analyzer, built   *)
(* from a snapshot of its own, and interleaves calls on the two.           *)
(***************************************************************************)
VARIABLES
    data,              \* self.data
    cells,             \* self.cells
    cycle_count,       \* self.cycle_count
    nominal_capacity,  \* self.nominal_capacity
    current_capacity,  \* self.current_capacity
    op,                \* the method called last
    arg,               \* its soh argument: <<soh>>, or <<>> when it takes none
    ret,               \* what it returned ("none" when it raised)
    raised,            \* the exception it ended in, or "none"
    divisions,         \* the true divisions it executed
    calls,             \* the methods it called, in order
    other,             \* the second analyzer ("None" when there is only one)
    history            \* SpecInstances: the analyzer of each call so far

vars == <<data, cells, cycle_count, nominal_capacity, current_capacity,
          op, arg, ret, raised, divisions, calls, other, history>>

fields == <<data, cells, cycle_count, nominal_capacity, current_capacity>>

self == [data |-> data, cells |-> cells, cycle_count |-> cycle_count,
         nominal_capacity |-> nominal_capacity, current_capacity |-> current_capacity]

\* the analyzer is the one the constructor builds from d; nothing was called
Constructed(d) ==
    LET new == __init__(d)
    IN  /\ data = new.data
        /\ cells = new.cells
        /\ cycle_count = new.cycle_count
        /\ nominal_capacity = new.nominal_capacity
        /\ current_capacity = new.current_capacity
        /\ op = "__init__"
        /\ arg = <<>>
        /\ ret = "None"
        /\ raised = "none"
        /\ divisions = 0
        /\ calls = <<>>

Init ==
    /\ \E d \in Snapshots : Constructed(d)
    /\ other = "None"
    /\ history = <<>>

\* the last call was method fn with the arguments args and ended in r
Ended(fn, args, r) ==
    /\ op' = fn
    /\ arg' = args
    /\ ret' = r.val
    /\ raised' = r.exc
    /\ divisions' = r.divisions
    /\ calls' = r.calls

\* the analyzer is left as s
Left(s) ==
    /\ data' = s.data
    /\ cells' = s.cells
    /\ cycle_count' = s.cycle_count
    /\ nominal_capacity' = s.nominal_capacity
    /\ current_capacity' = s.current_capacity

\* method fn was called on the analyzer with the arguments args and ended in
\* r: the analyzer has the attributes the method assigned
Called(fn, args, r) ==
    /\ Ended(fn, args, r)
    /\ Left(SetAttrs(self, r.writes))
    /\ UNCHANGED <<other, history>>

CalculateStateOfHealth ==
    Called("calculate_state_of_health", <<>>, calculate_state_of_health(self))

DetectVoltageImbalance ==
    Called("detect_voltage_imbalance", <<>>, detect_voltage_imbalance(self))

DetectOverheating ==
    Called("detect_overheating", <<>>, detect_overheating(self))

\* the soh values a caller passes: the chosen ones and the one
\* calculate_state_of_health returns on this analyzer
SohInputs ==
    LET own == calculate_state_of_health(self)
    IN  SohArgs \cup (IF own.exc = "none" THEN {own.val} ELSE {})

DetectLowHealth ==
    \E soh \in SohInputs : Called("detect_low_health", <<soh>>, detect_low_health(self, soh))

DetectAnomalies ==
    \E soh \in SohInputs : Called("detect_anomalies", <<soh>>, detect_anomalies(self, soh))

GenerateReport ==
    Called("generate_report", <<>>, generate_report(self))

Next ==
    \/ CalculateStateOfHealth
    \/ DetectVoltageImbalance
    \/ DetectOverheating
    \/ DetectLowHealth
    \/ DetectAnomalies
    \/ GenerateReport

Spec == Init /\ [][Next]_vars

(***************************************************************************)
(* Two analyzers, each built from a snapshot of its own, and at most       *)
(* MaxCalls calls on them in any interleaving.  A method runs to its end   *)
(* before the next is called: the class starts no thread and a method      *)
(* shares nothing but its own analyzer.                                    *)
(***************************************************************************)
Instances == {"self", "other"}

Instance(who) == IF who = "self" THEN self ELSE other

InitInstances ==
    /\ \E d \in InstanceSnapshots : Constructed(d)
    /\ \E d \in InstanceSnapshots : other = __init__(d)
    /\ history = <<>>

\* method fn was called on the analyzer who with the arguments args and
\* ended in r: that analyzer has the attributes the method assigned, the
\* other one is as it was
CalledOn(who, fn, args, r) ==
    /\ Len(history) < MaxCalls
    /\ history' = Append(history, who)
    /\ Ended(fn, args, r)
    /\ IF who = "self"
       THEN Left(SetAttrs(self, r.writes)) /\ other' = other
       ELSE other' = SetAttrs(other, r.writes) /\ UNCHANGED fields

CalculateStateOfHealthOn ==
    \E who \in Instances :
        CalledOn(who, "calculate_state_of_health", <<>>,
                 calculate_state_of_health(Instance(who)))

DetectVoltageImbalanceOn ==
    \E who \in Instances :
        CalledOn(who, "detect_voltage_imbalance", <<>>,
                 detect_voltage_imbalance(Instance(who)))

DetectOverheatingOn ==
    \E who \in Instances :
        CalledOn(who, "detect_overheating", <<>>, detect_overheating(Instance(who)))

DetectLowHealthOn ==
    \E who \in Instances, soh \in SohArgs :
        CalledOn(who, "detect_low_health", <<soh>>, detect_low_health(Instance(who), soh))

DetectAnomaliesOn ==
    \E who \in Instances, soh \in SohArgs :
        CalledOn(who, "detect_anomalies", <<soh>>, detect_anomalies(Instance(who), soh))

GenerateReportOn ==
    \E who \in Instances :
        CalledOn(who, "generate_report", <<>>, generate_report(Instance(who)))

NextInstances ==
    \/ CalculateStateOfHealthOn
    \/ DetectVoltageImbalanceOn
    \/ DetectOverheatingOn
    \/ DetectLowHealthOn
    \/ DetectAnomaliesOn
    \/ GenerateReportOn

SpecInstances == InitInstances /\ [][NextInstances]_vars

(***************************************************************************)
(* Properties.                                                             *)
(***************************************************************************)
AnomalyLabels == <<"Voltage imbalance detected", "Overheating detected", "Low State of Health">>

\* what the detector behind a label answers on this analyzer, for this soh
DetectorSays(label, soh) ==
    CASE label = "Voltage imbalance detected" -> detect_voltage_imbalance(self).val
      [] label = "Overheating detected" -> detect_overheating(self).val
      [] label = "Low State of Health" -> detect_low_health(self, soh).val

\* the labels whose detector answers true, in the fixed order
ExpectedAnomalies(soh) == SelectSeq(AnomalyLabels, LAMBDA label : DetectorSays(label, soh))

\* C1: detect_anomalies(soh) returns exactly the sub-sequence of the three
\* labels (voltage imbalance, overheating, low health) whose detector
\* returns true: each true condition once, no false one, order unchanged.
C1_AnomaliesAreTheTrueDetectorsInOrder ==
    op = "detect_anomalies" =>
        /\ raised = "none"
        /\ ret = ExpectedAnomalies(arg[1])

\* C1 witness: a call of detect_anomalies in which all three detectors fire
C1_Witness ==
    /\ op = "detect_anomalies"
    /\ detect_voltage_imbalance(self).val
    /\ detect_overheating(self).val
    /\ arg[1] < LOW_HEALTH_THRESHOLD
    /\ ret = AnomalyLabels

\* ret, in hundredths of a percent, is a hundredth nearest to the exact
\* ratio current / nominal * 100:  |ret - 10000 * current / nominal| <= 1/2
NearestHundredth(h, current, nominal) ==
    LET d == 2 * h * nominal - 20000 * current
    IN  d <= nominal /\ 0 - d <= nominal

\* C2 as stated: with nominal > 0, calculate_state_of_health returns
\* current / nominal * 100 rounded to 2 decimal places, unclamped: above 100
\* when current > nominal and below 0 when current < 0.
C2_Original ==
    (op = "calculate_state_of_health" /\ nominal_capacity > 0) =>
        /\ raised = "none"
        /\ NearestHundredth(ret, current_capacity, nominal_capacity)
        /\ current_capacity > nominal_capacity => ret > 10000
        /\ current_capacity < 0 => ret < 0

\* C2 amended: with nominal > 0, calculate_state_of_health returns a
\* hundredth nearest to current / nominal * 100, unclamped: at least 100
\* when current > nominal and at most 0 when current < 0 (an excess of less
\* than half a hundredth rounds away, to exactly 100.0 or 0.0).
C2_RoundedUnclampedRatio ==
    (op = "calculate_state_of_health" /\ nominal_capacity > 0) =>
        /\ raised = "none"
        /\ NearestHundredth(ret, current_capacity, nominal_capacity)
        /\ current_capacity > nominal_capacity => ret >= 10000
        /\ current_capacity < 0 => ret <= 0

\* C2 witness: a ratio above 100 % that is no whole hundredth is returned
\* rounded and above 100
C2_Witness ==
    /\ op = "calculate_state_of_health"
    /\ nominal_capacity > 0
    /\ current_capacity > nominal_capacity
    /\ (10000 * current_capacity) % nominal_capacity # 0
    /\ ret > 10000

\* C3: with nominal_capacity_kwh = 0, calculate_state_of_health returns 0.0
\* for every current capacity, divides nothing, and neither it nor
\* generate_report ends in an error.
C3_ZeroNominalGivesZeroWithoutDividing ==
    /\ (op = "calculate_state_of_health" /\ nominal_capacity = 0) =>
            (raised = "none" /\ ret = 0 /\ divisions = 0)
    /\ (op = "generate_report" /\ nominal_capacity = 0) =>
            (raised = "none" /\ ret.battery_soh = 0 /\ divisions = 0)

\* C3 witness: the zero-nominal SoH of a snapshot that gives nominal 0 and a
\* negative current capacity
C3_Witness ==
    /\ op = "calculate_state_of_health"
    /\ "nominal_capacity_kwh" \in DOMAIN data
    /\ nominal_capacity = 0
    /\ current_capacity < 0
    /\ ret = 0

\* the voltages of a cells list, as a set
VoltagesOf(cs) == { cs[i].voltage : i \in 1..Len(cs) }

\* the spread of the voltages in exact arithmetic: some pair of cells is d
\* millivolts apart and no pair is further apart
SpreadAbove(cs, d) == \E v \in VoltagesOf(cs) : \E w \in VoltagesOf(cs) : v - w > d

\* C4: detect_voltage_imbalance returns true if and only if cells is
\* non-empty and the largest minus the smallest cell voltage is strictly
\* above 0.05 V in exact arithmetic: a spread of exactly 50 mV returns
\* false, any larger spread true, a single-cell or all-equal pack false.
C4_ImbalanceIffSpreadAboveFiftyMillivolts ==
    op = "detect_voltage_imbalance" =>
        /\ raised = "none"
        /\ ret = SpreadAbove(cells, VOLTAGE_IMBALANCE_THRESHOLD)

\* C5: detect_overheating returns true if and only if at least one cell is
\* strictly above 45.0 degrees, wherever it stands in the list; a pack
\* whose hottest cell is at exactly 45.0 returns false.
C5_OverheatingIffSomeCellAboveThreshold ==
    op = "detect_overheating" =>
        /\ raised = "none"
        /\ ret = (\E i \in 1..Len(cells) : cells[i].temperature > OVERHEATING_THRESHOLD)

\* C5 witness: the first cell is at exactly 45.0, a later one above it, and
\* overheating is reported
C5_Witness ==
    /\ op = "detect_overheating"
    /\ Len(cells) >= 2
    /\ cells[1].temperature = OVERHEATING_THRESHOLD
    /\ cells[Len(cells)].temperature > OVERHEATING_THRESHOLD
    /\ ret = TRUE

\* C6: detect_low_health(soh) is a function of its argument only: true if
\* and only if soh < 80.0 (false at exactly 80.0), whatever capacities and
\* cells the analyzer holds.
C6_LowHealthIffArgumentBelowThreshold ==
    op = "detect_low_health" =>
        /\ raised = "none"
        /\ ret = (arg[1] < LOW_HEALTH_THRESHOLD)

\* C6 witness: the argument is exactly 80.0 and the answer false, on an
\* analyzer whose own SoH is below 80
C6_Witness ==
    /\ op = "detect_low_health"
    /\ arg = <<LOW_HEALTH_THRESHOLD>>
    /\ calculate_state_of_health(self).val < LOW_HEALTH_THRESHOLD
    /\ ret = FALSE

\* C7: with an empty cells sequence, detect_voltage_imbalance and
\* detect_overheating both return false without error, and generate_report
\* returns anomalies [] when the SoH is >= 80.0 and ["Low State of Health"]
\* when it is below.
C7_EmptyCellsRaiseNothingAndFlagOnlyLowHealth ==
    cells = <<>> =>
        /\ op \in {"detect_voltage_imbalance", "detect_overheating"} =>
                (raised = "none" /\ ret = FALSE)
        /\ op = "generate_report" =>
                /\ raised = "none"
                /\ ret.anomalies = IF ret.battery_soh >= LOW_HEALTH_THRESHOLD
                                   THEN <<>>
                                   ELSE <<"Low State of Health">>

\* C7 witness: the report of a snapshot whose cells list is given and empty
\* and whose SoH is below 80: low health alone
C7_Witness ==
    /\ op = "generate_report"
    /\ "cells" \in DOMAIN data
    /\ cells = <<>>
    /\ nominal_capacity > 0
    /\ ret.battery_soh < LOW_HEALTH_THRESHOLD
    /\ ret.anomalies = <<"Low State of Health">>

\* the calls of method fn among the calls of the last operation
CallsOf(fn) == { i \in DOMAIN calls : calls[i].fn = fn }

\* C8: generate_report computes the SoH once and uses that one value as
\* battery_soh and as the argument of the low-health check: the anomalies
\* are those of the three detectors called with soh = battery_soh, so the
\* low-health label is in the report if and only if battery_soh < 80.0.
C8_ReportUsesOneSohValue ==
    op = "generate_report" =>
        /\ raised = "none"
        /\ Cardinality(CallsOf("calculate_state_of_health")) = 1
        /\ Cardinality(CallsOf("detect_low_health")) = 1
        /\ \A i \in CallsOf("detect_anomalies") \cup CallsOf("detect_low_health") :
                calls[i].args = <<ret.battery_soh>>
        /\ ret.anomalies = ExpectedAnomalies(ret.battery_soh)
        /\ (\E i \in DOMAIN ret.anomalies : ret.anomalies[i] = "Low State of Health")
                <=> ret.battery_soh < LOW_HEALTH_THRESHOLD

\* C8 witness: a report whose SoH was rounded up to exactly 80.0 from a
\* ratio below 80, and which carries no low-health label
C8_Witness ==
    /\ op = "generate_report"
    /\ nominal_capacity > 0
    /\ 100 * current_capacity < 80 * nominal_capacity
    /\ ret.battery_soh = LOW_HEALTH_THRESHOLD
    /\ \A i \in DOMAIN ret.anomalies : ret.anomalies[i] # "Low State of Health"

\* C9: the report has exactly the three fields battery_soh, cycle_count and
\* anomalies, and its cycle_count is the snapshot's, unmodified, whatever
\* the cells, capacities and anomalies are.
C9_ReportHasThreeFieldsAndTheSnapshotsCycleCount ==
    op = "generate_report" =>
        /\ raised = "none"
        /\ DOMAIN ret = {"battery_soh", "cycle_count", "anomalies"}
        /\ "cycle_count" \in DOMAIN data => ret.cycle_count = data["cycle_count"]

\* C9 witness: a report with anomalies that carries the snapshot's 300 cycles
C9_Witness ==
    /\ op = "generate_report"
    /\ "cycle_count" \in DOMAIN data
    /\ data["cycle_count"] = 300
    /\ ret.cycle_count = 300
    /\ Len(ret.anomalies) = 3

\* the value an omitted key is to be read as: [] for cells, 0 for a number
DefaultOf(key) == IF key = "cells" THEN <<>> ELSE 0

\* the snapshot d with every omitted key filled in with its default
Filled(d) ==
    [key \in DOMAIN d \cup OptionalKeys |-> IF key \in DOMAIN d THEN d[key] ELSE DefaultOf(key)]

\* C10: a snapshot that omits any of cells, cycle_count,
\* nominal_capacity_kwh, current_capacity_kwh is analysed as if the key were
\* there with [] (cells) or 0: generate_report gives what it gives on the
\* filled-in snapshot, and never raises.
C10_OmittedKeysAreReadAsTheirDefaults ==
    (op = "generate_report" /\ ~(OptionalKeys \subseteq DOMAIN data)) =>
        LET full == generate_report(__init__(Filled(data)))
        IN  /\ raised = "none"
            /\ full.exc = "none"
            /\ ret = full.val

\* C10 witness: the report of a snapshot that omits the nominal capacity
\* alone, with cells that raise both cell anomalies and a positive current
\* capacity
C10_Witness ==
    /\ op = "generate_report"
    /\ OptionalKeys \ DOMAIN data = {"nominal_capacity_kwh"}
    /\ current_capacity > 0
    /\ ret = [battery_soh |-> 0, cycle_count |-> 300, anomalies |-> AnomalyLabels]

\* the cells list cs in every order
Reorderings(cs) ==
    { [i \in 1..Len(cs) |-> cs[p[i]]] : p \in Permutations(1..Len(cs)) }

\* the snapshot d with its cells in the order cs (d itself when it has no
\* cells key)
Reordered(d, cs) == IF "cells" \in DOMAIN d THEN [d EXCEPT !["cells"] = cs] ELSE d

\* method fn, one that takes no argument, called on the analyzer s
MethodOn(fn, s) ==
    CASE fn = "calculate_state_of_health" -> calculate_state_of_health(s)
      [] fn = "detect_voltage_imbalance" -> detect_voltage_imbalance(s)
      [] fn = "detect_overheating" -> detect_overheating(s)
      [] fn = "generate_report" -> generate_report(s)

\* C11: the order of the cells does not matter.  What
\* detect_voltage_imbalance, detect_overheating and generate_report gave on
\* this analyzer is what they give on the analyzer of the same snapshot with
\* its cells in any other order.
C11_CellOrderDoesNotMatter ==
    op \in {"detect_voltage_imbalance", "detect_overheating", "generate_report"} =>
        \A cs \in Reorderings(cells) :
            LET r == MethodOn(op, __init__(Reordered(data, cs)))
            IN  /\ raised = r.exc
                /\ ret = r.val

\* C11 witness: a report on two different cells, the higher voltage first
\* and the only overheating cell last, that carries both cell anomalies
C11_Witness ==
    /\ op = "generate_report"
    /\ Len(cells) = 2
    /\ cells[1].voltage > cells[2].voltage
    /\ cells[1].temperature <= OVERHEATING_THRESHOLD
    /\ cells[2].temperature > OVERHEATING_THRESHOLD
    /\ Len(ret.anomalies) >= 2
    /\ ret.anomalies[1] = "Voltage imbalance detected"
    /\ ret.anomalies[2] = "Overheating detected"

\* C12: no call changes the snapshot or a field of any analyzer, and nothing
\* is shared between calls or analyzers.  A call on either analyzer, after
\* any calls on the two in any interleaving, leaves the snapshot and the
\* fields of both as they were; and when the call is generate_report, it
\* gives what one call of generate_report gives on a fresh analyzer built
\* from the same snapshot.
C12_CallsChangeNothingAndReportsAreThoseOfAFreshAnalyzer ==
    [][/\ fields' = fields
       /\ other' = other
       /\ op' = "generate_report" =>
              LET who == history'[Len(history')]
                  fresh == generate_report(__init__(Instance(who).data))
              IN  /\ raised' = fresh.exc
                  /\ ret' = fresh.val]_vars

\* C12 witness: a report with all three anomalies from the first analyzer,
\* after a call on it and then a call on the second analyzer, which is
\* built from another snapshot
C12_Witness ==
    /\ history = <<"self", "other", "self">>
    /\ op = "generate_report"
    /\ other.data # data
    /\ Len(ret.anomalies) = 3

\* C13: a snapshot whose nominal_capacity_kwh is 0 or missing is reported
\* with battery_soh 0.0 and with "Low State of Health" as the last of its
\* anomalies, whatever its current capacity and its cells.
C13_ZeroNominalIsReportedAsLowHealth ==
    (/\ op = "generate_report"
     /\ \/ "nominal_capacity_kwh" \notin DOMAIN data
        \/ data["nominal_capacity_kwh"] = 0) =>
        /\ raised = "none"
        /\ ret.battery_soh = 0
        /\ ret.anomalies # <<>>
        /\ ret.anomalies[Len(ret.anomalies)] = "Low State of Health"

\* C13 witness: the report of a snapshot with a nominal capacity of 0, a
\* current capacity of 250.01 kWh and no cells
C13_Witness ==
    /\ op = "generate_report"
    /\ "nominal_capacity_kwh" \in DOMAIN data
    /\ data["nominal_capacity_kwh"] = 0
    /\ current_capacity = 25001
    /\ cells = <<>>
    /\ ret.battery_soh = 0
    /\ ret.anomalies = <<"Low State of Health">>

\* the double (current / nominal) * 100 of battery_report.py:66, before it is
\* rounded (nominal > 0)
RawRatio(s) == FloatMulInt(PyTrueDiv(s.current_capacity, s.nominal_capacity).val, 100)

\* the double x is below 80: its rational decides, and its rounding error
\* when the rational is 80
Below80(x) ==
    \/ x.sign < 0
    \/ x.num < 80 * x.den
    \/ x.num = 80 * x.den /\ x.err > 0

\* the double x is at least 79.995 = 15999/200
AtLeast79995(x) ==
    /\ x.sign > 0
    /\ \/ 200 * x.num > 15999 * x.den
       \/ 200 * x.num = 15999 * x.den /\ x.err <= 0

\* C14: generate_report applies the low-health threshold to the SoH rounded
\* to 2 decimals, not to the raw ratio.  With nominal > 0, a raw ratio
\* (current / nominal) * 100 in [79.995, 80) is reported with battery_soh
\* 80.0 and without "Low State of Health"; and every report whose
\* battery_soh is at most 79.99 carries "Low State of Health".
C14_ThresholdIsAppliedToTheRoundedSoh ==
    op = "generate_report" =>
        LET low == \E i \in 1..Len(ret.anomalies) : ret.anomalies[i] = "Low State of Health"
        IN  /\ raised = "none"
            /\ (/\ nominal_capacity > 0
                /\ Below80(RawRatio(self))
                /\ AtLeast79995(RawRatio(self))) =>
                    (ret.battery_soh = 8000 /\ ~low)
            /\ ret.battery_soh <= 7999 => low

\* C14 witness: 159.99 of 200 kWh, a raw ratio below 80 that rounds to 80.0,
\* reported with battery_soh 80.0 and no anomaly at all
C14_Witness ==
    /\ op = "generate_report"
    /\ nominal_capacity = 20000
    /\ current_capacity = 15999
    /\ Below80(RawRatio(self))
    /\ ret.battery_soh = 8000
    /\ ret.anomalies = <<>>

====
